---- MODULE Spec2Model ----
\* Model of the dataset loaders ASLCitizen (asl_citizen.py) and How2Sign
\* (how2sign.py): schema declaration (_info), split generation
\* (_split_generators) and example production (_generate_examples).
\*
\* Python strings are sequences of one-character strings, so that str(),
\* str.replace and os.path.join are computed and not assumed.  An optional
\* value is a sequence of length 0 (None) or 1 (the value).
EXTENDS Integers, Sequences, FiniteSets, TLC

VARIABLES builder, cfg, csvFile, fs,
          pc, info, error, run, prev,
          csv_data, i, data, printed, dlLog, poses_dir, pose_file, yielded,
          h, sessionGets, downloads, disk, gen_kwargs

vars == <<builder, cfg, csvFile, fs, pc, info, error, run, prev,
          csv_data, i, data, printed, dlLog, poses_dir, pose_file, yielded,
          h, sessionGets, downloads, disk, gen_kwargs>>

inputVars == <<builder, cfg, csvFile, fs>>
aslVars == <<csv_data, i, data, printed, dlLog, poses_dir, pose_file, yielded>>
h2sVars == <<h, sessionGets, downloads, disk, gen_kwargs>>

----------------------------------------------------------------------------
\* Bounds of the model

MaxRows == 3
MaxRuns == 2

----------------------------------------------------------------------------
\* Program constants

MinColumns == 4
ASL_SOURCE_FPS == 30
H2S_SOURCE_FPS == 24

None == << >>
Some(x) == <<x>>

POSE_URL_HOLISTIC == "poses/holistic/ASLCitizen.zip"
DOWNLOAD_URL == "ASL_Citizen.zip"

SplitNames == <<"train", "validation", "test">>
SplitKeys == <<"rgb_clips_front", "rgb_clips_side", "bfh_2d_front">>

\* _SPLITS[s][k]: every entry is a distinct drive.google.com URL
SPLITS(s, k) == <<"drive.google.com", s, k>>

----------------------------------------------------------------------------
\* Pure helpers, computed as the Python code computes them

Digits == <<"0", "1", "2", "3", "4", "5", "6", "7", "8", "9">>

RECURSIVE Str(_)
\* str(i) for a non-negative int
Str(n) == IF n < 10 THEN <<Digits[n + 1]>>
          ELSE Str(n \div 10) \o <<Digits[(n % 10) + 1]>>

MP4 == <<".", "m", "p", "4">>
POSE_EXT == <<".", "p", "o", "s", "e">>

RECURSIVE ReplaceMp4(_)
\* s.replace('.mp4', ''): every non-overlapping occurrence, left to right
ReplaceMp4(s) ==
    IF Len(s) < Len(MP4) THEN s
    ELSE IF SubSeq(s, 1, Len(MP4)) = MP4
         THEN ReplaceMp4(SubSeq(s, Len(MP4) + 1, Len(s)))
         ELSE <<Head(s)>> \o ReplaceMp4(Tail(s))

\* posixpath.join(a, b)
PathJoin(a, b) ==
    IF b # << >> /\ Head(b) = "/" THEN b
    ELSE IF a = << >> \/ a[Len(a)] = "/" THEN a \o b
    ELSE a \o <<"/">> \o b

\* path.join(poses_dir, 'poses', video_code + '.pose')
PoseFilePath(dir, video_code) ==
    PathJoin(PathJoin(dir, <<"p", "o", "s", "e", "s">>), video_code \o POSE_EXT)

\* str(dl_manager.download_and_extract(url)): the extraction directory of url
ExtractDir(url) == <<"/", "x">>

\* pose_file.exists() on a str: str has no attribute 'exists'
StrExists(p, files) == [raised |-> "AttributeError", value |-> FALSE]

RECURSIVE GCD(_, _)
GCD(a, b) == IF b = 0 THEN a ELSE GCD(b, a % b)

\* the quotient a / b (b > 0) as a fraction in lowest terms
Quotient(a, b) == <<a \div GCD(a, b), b \div GCD(a, b)>>

\* a floor division in place of the true division
StrideFloorDiv(source_fps, fps) ==
    IF fps = None THEN <<1, 1>> ELSE <<source_fps \div fps[1], 1>>

\* stride = 1 if fps is None else source_fps / fps
Stride(source_fps, fps) ==
    IF fps = None THEN <<1, 1>> ELSE Quotient(source_fps, fps[1])

\* truth value of config.include_pose (None is falsy, a non-empty name truthy)
Truthy(v) == v # None

\* identifiers counted over the retained rows only
RowIdReindexed(pos, retained) == Str(Len(retained))

\* the identifier given to the row at position pos (line 114)
RowId(pos, retained) == Str(pos)

\* the datum built from a retained row (lines 112-119)
Datum(pos, row_val, retained) ==
    [id |-> RowId(pos, retained),
     video_code |-> ReplaceMp4(row_val[2]),
     text |-> row_val[3],
     signer_id |-> row_val[1],
     asl_lex_code |-> row_val[4]]

\* a list shared between invocations
NewListShared(old) == old

\* data = []  (line 107): a new list on every invocation
NewList(old) == << >>

BaseFeatures == {"id", "video_code", "text", "signer_id", "asl_lex_code"}

\* the feature names declared by ASLCitizen._info
ASLFeatureKeys(include_pose) ==
    BaseFeatures \cup (IF include_pose = Some("holistic") THEN {"pose"} ELSE {})

\* the feature names declared by How2Sign._info
H2SFeatureKeys(include_pose, include_video) ==
    {"id", "fps"} \cup (IF include_video THEN {"video"} ELSE {})
                  \cup (IF include_pose = Some("openpose") THEN {"pose"} ELSE {})

----------------------------------------------------------------------------
\* Inputs

S(c) == <<c>>
NameA == <<"a", ".", "m", "p", "4">>
NameB == <<"b">>
NameInner == <<"c", ".", "m", "p", "4", "d", ".", "m", "p", "4">>

Header == <<S("h"), S("h"), S("h"), S("h")>>
RowShort == <<S("s"), NameA>>
RowA == <<S("s"), NameA, S("t"), S("l")>>
RowB == <<S("u"), NameB, S("t"), S("l"), S("e")>>
RowInner == <<S("s"), NameInner, S("t"), S("l")>>

RowTemplates == {RowShort, RowA, RowB, RowInner}

Manifests == UNION {[1..n -> RowTemplates] : n \in 0..MaxRows}

PoseNames == {None, Some("holistic"), Some("openpose")}
FpsValues == {None, Some(0), Some(7), Some(12), Some(15), Some(60)}
Configs == [include_pose : PoseNames, include_video : BOOLEAN, fps : FpsValues]

\* the pose files that may be present under the extraction directory
PoseFilesOnDisk == {PoseFilePath(ExtractDir(POSE_URL_HOLISTIC), ReplaceMp4(NameA)),
                    PoseFilePath(ExtractDir(POSE_URL_HOLISTIC), NameB)}

NoInfo == [status |-> "unset", keys |-> {}, stride |-> None]

Init ==
    /\ builder \in {"ASLCitizen", "How2Sign"}
    /\ cfg \in Configs
    /\ IF builder = "ASLCitizen"
       THEN /\ csvFile \in {<<Header>> \o m : m \in Manifests}
            /\ fs \in SUBSET PoseFilesOnDisk
       ELSE /\ csvFile = <<Header>>
            /\ fs = {}
    /\ pc = "new"
    /\ info = NoInfo
    /\ error = "none"
    /\ run = 1
    /\ prev = << >>
    /\ csv_data = << >>
    /\ i = 0
    /\ data = << >>
    /\ printed = << >>
    /\ dlLog = << >>
    /\ poses_dir = None
    /\ pose_file = None
    /\ yielded = << >>
    /\ h = 0
    /\ sessionGets = 0
    /\ downloads = << >>
    /\ disk = << >>
    /\ gen_kwargs = << >>

----------------------------------------------------------------------------
\* ASLCitizen

\* ASLCitizen._info: the pose feature is declared only for "holistic"; its
\* stride divides by the configured fps
ASL_info ==
    /\ builder = "ASLCitizen"
    /\ pc = "new"
    /\ IF cfg.include_pose = Some("holistic") /\ cfg.fps = Some(0)
       THEN /\ info' = [status |-> "raised", keys |-> {}, stride |-> None]
            /\ error' = "ZeroDivisionError"
            /\ pc' = "info_failed"
       ELSE /\ info' = [status |-> "ok",
                        keys |-> ASLFeatureKeys(cfg.include_pose),
                        stride |-> IF cfg.include_pose = Some("holistic")
                                   THEN Some(Stride(ASL_SOURCE_FPS, cfg.fps))
                                   ELSE None]
            /\ error' = error
            /\ pc' = "ready"
    /\ UNCHANGED <<inputVars, run, prev, aslVars, h2sVars>>

\* _split_generators, lines 103-108: data = [] and the manifest is read with
\* its header removed (_load_csv_and_remove_header)
ASL_load_csv ==
    /\ builder = "ASLCitizen"
    /\ pc = "ready"
    /\ data' = NewList(data)
    /\ csv_data' = Tail(csvFile)
    /\ i' = 0
    /\ pc' = "rows"
    /\ UNCHANGED <<inputVars, info, error, run, prev, printed, dlLog, poses_dir,
                   pose_file, yielded, h2sVars>>

\* one iteration of the loop of lines 110-122
ASL_row ==
    /\ builder = "ASLCitizen"
    /\ pc = "rows"
    /\ i < Len(csv_data)
    /\ LET row_val == csv_data[i + 1]
       IN IF Len(row_val) >= MinColumns
          THEN /\ data' = Append(data, Datum(i, row_val, data))
               /\ printed' = printed
          ELSE /\ printed' = Append(printed, [row |-> i, row_val |-> row_val])
               /\ data' = data
    /\ i' = i + 1
    /\ UNCHANGED <<inputVars, pc, info, error, run, prev, csv_data, dlLog,
                   poses_dir, pose_file, yielded, h2sVars>>

\* lines 126-128: the video archive is downloaded when include_video is set
ASL_video ==
    /\ builder = "ASLCitizen"
    /\ pc = "rows"
    /\ i = Len(csv_data)
    /\ dlLog' = IF cfg.include_video THEN Append(dlLog, DOWNLOAD_URL) ELSE dlLog
    /\ pc' = "pose"
    /\ UNCHANGED <<inputVars, info, error, run, prev, csv_data, i, data, printed,
                   poses_dir, pose_file, yielded, h2sVars>>

\* lines 133-134: the pose archive is downloaded when include_pose is truthy,
\* always from _POSE_URLS['holistic']
ASL_pose_download ==
    /\ builder = "ASLCitizen"
    /\ pc = "pose"
    /\ IF Truthy(cfg.include_pose)
       THEN /\ dlLog' = Append(dlLog, POSE_URL_HOLISTIC)
            /\ poses_dir' = Some(ExtractDir(POSE_URL_HOLISTIC))
            /\ pc' = "resolve"
       ELSE /\ UNCHANGED <<dlLog, poses_dir>>
            /\ pc' = "return"
    /\ UNCHANGED <<inputVars, info, error, run, prev, csv_data, i, data, printed,
                   pose_file, yielded, h2sVars>>

\* lines 135-137: the loop over data.  The first iteration computes pose_file
\* (a str) and calls pose_file.exists(); when that raises, _split_generators
\* ends with the exception.  With no datum the loop body never runs.
ASL_pose_resolve ==
    /\ builder = "ASLCitizen"
    /\ pc = "resolve"
    /\ IF data = << >>
       THEN /\ pc' = "return"
            /\ UNCHANGED <<pose_file, data, error>>
       ELSE LET pf == PoseFilePath(poses_dir[1], data[1].video_code)
                r == StrExists(pf, fs)
            IN /\ pose_file' = Some(pf)
               /\ IF r.raised # "none"
                  THEN /\ error' = r.raised
                       /\ pc' = "failed"
                       /\ data' = data
                  ELSE /\ error' = error
                       /\ pc' = "return"
                       /\ data' = [n \in 1..Len(data) |->
                                     LET p == PoseFilePath(poses_dir[1], data[n].video_code)
                                     IN [pose |-> IF StrExists(p, fs).value
                                                  THEN Some(p) ELSE None] @@ data[n]]
    /\ UNCHANGED <<inputVars, info, run, prev, csv_data, i, printed, dlLog,
                   poses_dir, yielded, h2sVars>>

\* line 142: the train split is bound to the generator over data
ASL_return ==
    /\ builder = "ASLCitizen"
    /\ pc = "return"
    /\ pc' = "gen"
    /\ UNCHANGED <<inputVars, info, error, run, prev, aslVars, h2sVars>>

\* _generate_examples: one pull of the generator (lines 146-147)
ASL_yield ==
    /\ builder = "ASLCitizen"
    /\ pc = "gen"
    /\ Len(yielded) < Len(data)
    /\ LET datum == data[Len(yielded) + 1]
       IN yielded' = Append(yielded, <<datum.id, datum>>)
    /\ UNCHANGED <<inputVars, pc, info, error, run, prev, csv_data, i, data,
                   printed, dlLog, poses_dir, pose_file, h2sVars>>

\* the generator is exhausted
ASL_exhausted ==
    /\ builder = "ASLCitizen"
    /\ pc = "gen"
    /\ Len(yielded) = Len(data)
    /\ pc' = "done"
    /\ UNCHANGED <<inputVars, info, error, run, prev, aslVars, h2sVars>>

\* what one invocation of split generation produced
Outcome == [pc |-> pc, error |-> error, yielded |-> yielded]

\* generation is invoked again on the same builder, manifest and assets
ASL_reinvoke ==
    /\ builder = "ASLCitizen"
    /\ pc \in {"done", "failed"}
    /\ run < MaxRuns
    /\ prev' = Append(prev, Outcome)
    /\ run' = run + 1
    /\ pc' = "ready"
    /\ error' = "none"
    /\ csv_data' = << >>
    /\ i' = 0
    /\ printed' = << >>
    /\ dlLog' = << >>
    /\ poses_dir' = None
    /\ pose_file' = None
    /\ yielded' = << >>
    /\ UNCHANGED <<inputVars, info, data, h2sVars>>

----------------------------------------------------------------------------
\* How2Sign

\* How2Sign._info
H2S_info ==
    /\ builder = "How2Sign"
    /\ pc = "new"
    /\ IF cfg.include_pose = Some("openpose") /\ cfg.fps = Some(0)
       THEN /\ info' = [status |-> "raised", keys |-> {}, stride |-> None]
            /\ error' = "ZeroDivisionError"
            /\ pc' = "info_failed"
       ELSE /\ info' = [status |-> "ok",
                        keys |-> H2SFeatureKeys(cfg.include_pose, cfg.include_video),
                        stride |-> IF cfg.include_pose = Some("openpose")
                                   THEN Some(Stride(H2S_SOURCE_FPS, cfg.fps))
                                   ELSE None]
            /\ error' = error
            /\ pc' = "ready"
    /\ UNCHANGED <<inputVars, run, prev, aslVars, h2sVars>>

\* lines 100-103: a session is opened and downloads = {}
H2S_start ==
    /\ builder = "How2Sign"
    /\ pc = "ready"
    /\ pc' = "h2s_loop"
    /\ h' = 0
    /\ sessionGets' = 0
    /\ downloads' = << >>
    /\ UNCHANGED <<inputVars, info, error, run, prev, aslVars, disk, gen_kwargs>>

\* f"{split_name}_{key}.mp4" under dl_manager.download_dir
FilePath(split_name, key) == <<"download_dir", split_name, key>>

\* downloads[key] = file_path (line 113): created or overwritten
SetItem(d, key, value) == [k \in (DOMAIN d) \cup {key} |-> IF k = key THEN value ELSE d[k]]

\* one iteration of the nested loops of lines 104-115, in _SPLITS order.
\* Every URL is a drive.google.com URL; download_file_from_google_drive does
\* a second GET when the response carries a download_warning cookie.
H2S_download ==
    /\ builder = "How2Sign"
    /\ pc = "h2s_loop"
    /\ h < Len(SplitNames) * Len(SplitKeys)
    /\ LET split_name == SplitNames[(h \div Len(SplitKeys)) + 1]
           key == SplitKeys[(h % Len(SplitKeys)) + 1]
           url == SPLITS(split_name, key)
           file_path == FilePath(split_name, key)
       IN /\ \E warning \in BOOLEAN :
                sessionGets' = sessionGets + (IF warning THEN 2 ELSE 1)
          /\ disk' = SetItem(disk, file_path, url)
          /\ downloads' = SetItem(downloads, key, file_path)
    /\ h' = h + 1
    /\ UNCHANGED <<inputVars, pc, info, error, run, prev, aslVars, gen_kwargs>>

\* lines 117-122: one SplitGenerator per split, gen_kwargs read from downloads
H2S_return ==
    /\ builder = "How2Sign"
    /\ pc = "h2s_loop"
    /\ h = Len(SplitNames) * Len(SplitKeys)
    /\ gen_kwargs' = [s \in {SplitNames[n] : n \in 1..Len(SplitNames)} |->
                        [k \in {SplitKeys[n] : n \in 1..Len(SplitKeys)} \cap DOMAIN downloads
                           |-> downloads[k]]]
    /\ pc' = "h2s_done"
    /\ UNCHANGED <<inputVars, info, error, run, prev, aslVars, h, sessionGets,
                   downloads, disk>>

----------------------------------------------------------------------------

Next ==
    \/ ASL_info
    \/ ASL_load_csv
    \/ ASL_row
    \/ ASL_video
    \/ ASL_pose_download
    \/ ASL_pose_resolve
    \/ ASL_return
    \/ ASL_yield
    \/ ASL_exhausted
    \/ ASL_reinvoke
    \/ H2S_info
    \/ H2S_start
    \/ H2S_download
    \/ H2S_return

Spec == Init /\ [][Next]_vars

----------------------------------------------------------------------------
\* Properties

IsASL == builder = "ASLCitizen"

RECURSIVE Positions(_, _)
\* the zero-based positions, in order, of the rows among the first n of rows
\* that have at least MinColumns columns
Positions(rows, n) ==
    IF n = 0 THEN << >>
    ELSE IF Len(rows[n]) >= MinColumns
         THEN Append(Positions(rows, n - 1), n - 1)
         ELSE Positions(rows, n - 1)

RECURSIVE ShortPositions(_, _)
ShortPositions(rows, n) ==
    IF n = 0 THEN << >>
    ELSE IF Len(rows[n]) < MinColumns
         THEN Append(ShortPositions(rows, n - 1), n - 1)
         ELSE ShortPositions(rows, n - 1)

DigitValue(c) == CHOOSE d \in 0..9 : Digits[d + 1] = c

RECURSIVE DecimalValue(_)
\* the number a string of decimal digits denotes
DecimalValue(s) ==
    IF s = << >> THEN 0
    ELSE DecimalValue(SubSeq(s, 1, Len(s) - 1)) * 10 + DigitValue(s[Len(s)])

\* s is the decimal string of n: digits only, no leading zero, value n
IsDecimalOf(s, n) ==
    /\ Len(s) >= 1
    /\ \A c \in 1..Len(s) : \E d \in 0..9 : Digits[d + 1] = s[c]
    /\ Len(s) > 1 => s[1] # "0"
    /\ DecimalValue(s) = n

\* s with one trailing ".mp4" removed, when it ends with one
StripSuffix(s) ==
    IF Len(s) >= Len(MP4) /\ SubSeq(s, Len(s) - Len(MP4) + 1, Len(s)) = MP4
    THEN SubSeq(s, 1, Len(s) - Len(MP4))
    ELSE s

IsPrefix(a, b) == Len(a) <= Len(b) /\ SubSeq(b, 1, Len(a)) = a

Count(seq, x) == Cardinality({n \in 1..Len(seq) : seq[n] = x})

\* the rows of this invocation have been read
RowsRead == pc \in {"rows", "pose", "resolve", "return", "gen", "done", "failed"}

\* split generation and the consumption of its generator have ended
Ended == pc \in {"done", "failed"}

\* C1: when generation of the train split ends, the records yielded are one
\* per data row with at least 4 columns, in manifest order, and one diagnostic
\* was printed per shorter row.
C1_OneRecordPerFullRow ==
    (IsASL /\ Ended) =>
        LET pos == Positions(csv_data, Len(csv_data))
        IN /\ Len(yielded) = Len(pos)
           /\ \A n \in 1..Len(yielded) :
                 /\ yielded[n][2].signer_id = csv_data[pos[n] + 1][1]
                 /\ yielded[n][2].text = csv_data[pos[n] + 1][3]
                 /\ yielded[n][2].asl_lex_code = csv_data[pos[n] + 1][4]
           /\ [n \in 1..Len(printed) |-> printed[n].row]
                 = ShortPositions(csv_data, Len(csv_data))

\* C2: with pose requested, split generation never raises, and once the pose
\* fields are attached every retained row has pose = None when its pose file
\* does not exist and pose = the file's path when it does.
C2_MissingPoseIsNone ==
    (IsASL /\ Truthy(cfg.include_pose)) =>
        /\ error # "AttributeError"
        /\ pc # "failed"
        /\ pc \in {"return", "gen", "done"} =>
              \A n \in 1..Len(data) :
                 LET p == PoseFilePath(ExtractDir(POSE_URL_HOLISTIC), data[n].video_code)
                 IN /\ "pose" \in DOMAIN data[n]
                    /\ data[n].pose = (IF p \in fs THEN Some(p) ELSE None)

\* C3: the record retained from the data row at zero-based position p has the
\* decimal string of p as its id (short rows still count), no two records
\* share an id, and every yielded pair carries that id.
C3_IdIsRowPosition ==
    (IsASL /\ RowsRead) =>
        LET pos == Positions(csv_data, i)
        IN /\ Len(data) = Len(pos)
           /\ \A n \in 1..Len(data) : IsDecimalOf(data[n].id, pos[n])
           /\ \A m, n \in 1..Len(data) : m # n => data[m].id # data[n].id
           /\ \A n \in 1..Len(yielded) :
                 /\ IsDecimalOf(yielded[n][1], pos[n])
                 /\ yielded[n][2].id = yielded[n][1]

\* three data rows, the second with fewer than 4 columns, fully consumed:
\* two records, ids "0" and "2"
C3_Witness ==
    /\ IsASL
    /\ pc = "done"
    /\ Len(csv_data) = 3
    /\ Len(csv_data[1]) >= MinColumns
    /\ Len(csv_data[2]) < MinColumns
    /\ Len(csv_data[3]) >= MinColumns
    /\ [n \in 1..Len(yielded) |-> yielded[n][1]] = <<S("0"), S("2")>>

\* C4: a later invocation against the same manifest, assets and configuration
\* yields, pair by pair, what the previous invocation yielded, and ends the
\* same way with the same complete sequence.
C4_RerunIdentical ==
    (IsASL /\ run > 1) =>
        LET before == prev[run - 1]
        IN /\ IsPrefix(yielded, before.yielded)
           /\ Ended => Outcome = before

\* a second invocation has yielded two records from a manifest with a skipped row
C4_Witness ==
    /\ IsASL
    /\ run = 2
    /\ pc = "done"
    /\ Len(yielded) >= 2
    /\ printed # << >>
    /\ yielded = prev[1].yielded

\* C5: with an include_pose name the loader does not support, _info fails and
\* nothing after it (download, manifest read, generation) is ever started.
C5_UnknownPoseFailsFast ==
    LET supported == IF IsASL THEN "holistic" ELSE "openpose"
    IN (cfg.include_pose # None /\ cfg.include_pose # Some(supported)) =>
          /\ info.status # "ok"
          /\ pc \in {"new", "info_failed"}
          /\ dlLog = << >>
          /\ sessionGets = 0
          /\ csv_data = << >>
          /\ yielded = << >>

\* C6: the stride of a declared pose feature is 1 when fps is None, and is
\* otherwise the quotient source_fps / fps (30 for ASLCitizen, 24 for
\* How2Sign); at half the source rate it is 2.
C6_Stride ==
    (info.status = "ok" /\ info.stride # None) =>
        LET stride == info.stride[1]
            source == IF IsASL THEN 30 ELSE 24
        IN /\ stride[2] > 0
           /\ cfg.fps = None => stride = <<1, 1>>
           /\ cfg.fps # None => stride[1] * cfg.fps[1] = source * stride[2]
           /\ (cfg.fps # None /\ 2 * cfg.fps[1] = source) => stride = <<2, 1>>

\* a pose feature declared with a stride that is not a whole number
C6_Witness ==
    /\ IsASL
    /\ info.status = "ok"
    /\ cfg.fps = Some(7)
    /\ info.stride = Some(<<30, 7>>)

\* C7: when a generation with pose requested ends, the pose archive was
\* fetched exactly once, before anything was yielded, and the pose path of
\* every retained row was resolved under the directory that fetch returned.
C7_PoseArchiveOnce ==
    (IsASL /\ Truthy(cfg.include_pose)) =>
        /\ yielded # << >> => Count(dlLog, POSE_URL_HOLISTIC) = 1
        /\ Ended =>
              /\ Count(dlLog, POSE_URL_HOLISTIC) = 1
              /\ poses_dir # None
              /\ \A n \in 1..Len(data) :
                    /\ "pose" \in DOMAIN data[n]
                    /\ data[n].pose # None => IsPrefix(poses_dir[1], data[n].pose[1])

\* C8: the video_code of a retained row is column 1 with one trailing ".mp4"
\* removed and everything else, an inner ".mp4" included, unchanged.
C8_OnlySuffixStripped ==
    (IsASL /\ RowsRead) =>
        LET pos == Positions(csv_data, i)
        IN \A n \in 1..Len(data) :
              data[n].video_code = StripSuffix(csv_data[pos[n] + 1][2])

\* C9: every split receives, for every key, the file downloaded from that
\* split's own URL for the key.
C9_SplitOwnAssets ==
    pc = "h2s_done" =>
        \A sn \in 1..Len(SplitNames) : \A kn \in 1..Len(SplitKeys) :
           LET s == SplitNames[sn]
               k == SplitKeys[kn]
           IN /\ k \in DOMAIN gen_kwargs[s]
              /\ disk[gen_kwargs[s][k]] = SPLITS(s, k)

\* C10: the records a split generation ends with, and the records yielded,
\* have exactly the keys the schema declared by _info has.
C10_RecordKeysMatchSchema ==
    (IsASL /\ info.status = "ok") =>
        /\ Ended => \A n \in 1..Len(data) : DOMAIN data[n] = info.keys
        /\ \A n \in 1..Len(yielded) : DOMAIN yielded[n][2] = info.keys

====
